---- MODULE Spec2Model ----
(***************************************************************************)
(* crossmemo: a key/value cache with TTL expiry and LRU eviction over      *)
(* three storage adapters (MemoryAdapter, LocalStorageAdapter,             *)
(* FileSystemAdapter).  A run drives one adapter with a sequence of        *)
(* awaited calls, or the three of them in lockstep with the same sequence, *)
(* so that every call's result can be compared across them.                *)
(***************************************************************************)
EXTENDS Integers, Sequences, FiniteSets, TLC

VARIABLES
    maxSize,    \* the maxSize every adapter was constructed with
    now,        \* Date.now()
    mem,        \* MemoryAdapter:       [store, accessOrder]
    ls,         \* LocalStorageAdapter: the localStorage it works on
    fsys,       \* FileSystemAdapter:   the cache directory it works on
    under,      \* the adapters the calls are made on
    last,       \* the call that completed last
    res,        \* what that call returned, per adapter
    log,        \* the calls made so far, while they form a tracked scenario
    limit,      \* the number of calls after which the run ends (0: none)
    calls,      \* the number of calls made in a run with a limit
    procs,      \* the calls of FileSystemAdapter that overlap, each with its
                \* position and its local variables (<<>>: none)
    memo,       \* memoize: the ttl of its options, and whether the last call
                \* of the memoized function invoked the wrapped function
    facade      \* Cache: the event types a listener is registered for, and
                \* the events it received

vars == <<maxSize, now, mem, ls, fsys, under, last, res, log, limit, calls, procs, memo, facade>>

(***************************************************************************)
(* Bounds of the model.                                                    *)
(***************************************************************************)
MaxCap  == 2        \* largest configured maxSize
MaxTime == 2        \* the clock runs from 1 to MaxTime
MaxTtl  == 1        \* largest ttl passed to set
MaxLog  == 4        \* longest tracked scenario
MaxCalls == 4       \* calls made in a lockstep run, or with entries overwritten
MaxCorruptCalls == 3  \* calls made in a run with AccessOrder overwritten
MaxFails == 2       \* writes of an entry that localStorage rejects in one set
MaxProcs == 2              \* calls of FileSystemAdapter that overlap
MaxFacadeCalls == 4        \* awaited calls through a Cache with a listener
MaxRepairCalls == 3        \* calls, overwrites and cleanup passes of a repair run

Keys   == {"A", "B", "C"}      \* non-empty keys, none of them a reserved name
KeysNoCap == {"A", "B"}        \* the keys used on a cache without maxSize
Values == {"v1", "v2"}
TTLs   == 0 .. MaxTtl          \* 0: no ttl option (options?.ttl is falsy)

Adapters == {"memory", "localStorage", "fileSystem"}

(***************************************************************************)
(* Program constants.                                                      *)
(***************************************************************************)
Infinity  == 1000000   \* options?.maxSize || Infinity
NoExpiry  == 0         \* expiry: undefined (tested with !entry.expiry)

Undefined == "undefined"   \* what get returns on a miss
Threw     == "threw"       \* the call rejected
Void      == "void"        \* a call that returns nothing completed

(***************************************************************************)
(* CacheEntry and what a backing store can hold in an entry's place.       *)
(*   kind "entry"   : an entry (in the persistent adapters: its JSON text) *)
(*   kind "absent"  : nothing stored                                       *)
(*   kind "garbage" : text JSON.parse throws on                            *)
(*   kind "object"  : JSON text of a value with no entry fields ("{}")     *)
(*   kind "empty"   : the empty string                                     *)
(***************************************************************************)
Absent == [kind |-> "absent", value |-> Undefined, timestamp |-> 0, expiry |-> NoExpiry]

Malformed(kind) ==
    [kind |-> kind, value |-> Undefined, timestamp |-> 0, expiry |-> NoExpiry]

MalformedKinds == {"garbage", "object", "empty"}

\* entry = { value, timestamp: Date.now(), expiry: ttl ? Date.now() + ttl : undefined }
NewEntry(value, ttl, t) ==
    [kind |-> "entry", value |-> value, timestamp |-> t,
     expiry |-> IF ttl # 0 THEN t + ttl ELSE NoExpiry]

\* variant of isExpired that keeps the entry at the boundary instant (>);
\* C3's property must tell it from isExpired
isExpiredAfter(entry, t) ==
    IF entry.expiry = NoExpiry THEN FALSE ELSE t > entry.expiry

\* if (!entry.expiry) return false; return Date.now() >= entry.expiry
isExpired(entry, t) ==
    IF entry.expiry = NoExpiry THEN FALSE ELSE t >= entry.expiry

\* arr.filter(k => k !== key)
Without(seq, key) == SelectSeq(seq, LAMBDA k : k # key)

\* arr.includes(key)
Includes(seq, key) == \E i \in 1 .. Len(seq) : seq[i] = key

\* if (oldestKey): a key read from an array is truthy unless the array was
\* empty (undefined) or the key is the empty string
Truthy(seq) == Len(seq) > 0 /\ Head(seq) # ""

\* variant of EffectiveMaxSize that reads a missing maxSize as a capacity of
\* one; C4's property must tell it from EffectiveMaxSize
MaxSizeAtLeastOne(opt) == IF opt = 0 THEN 1 ELSE opt

\* options?.maxSize || Infinity
EffectiveMaxSize(opt) == IF opt = 0 THEN Infinity ELSE opt

(***************************************************************************)
(* MemoryAdapter                                                           *)
(***************************************************************************)
MemEmpty == [store |-> [k \in Keys |-> Absent], accessOrder |-> <<>>]

MemSize(s) == Cardinality({k \in Keys : s.store[k].kind # "absent"})

MemRemove(s, key) ==
    [store |-> [s.store EXCEPT ![key] = Absent],
     accessOrder |-> Without(s.accessOrder, key)]

\* this.accessOrder = filter(k => k !== key); push(key)
MemUpdateAccessOrder(s, key) ==
    [s EXCEPT !.accessOrder = Append(Without(s.accessOrder, key), key)]

\* while (store.size > maxSize && accessOrder.length > 0) { ... }
RECURSIVE MemEvictLoop(_, _)
MemEvictLoop(s, cap) ==
    IF MemSize(s) > cap /\ Len(s.accessOrder) > 0
    THEN IF Truthy(s.accessOrder)
         THEN MemEvictLoop([store |-> [s.store EXCEPT ![Head(s.accessOrder)] = Absent],
                            accessOrder |-> Tail(s.accessOrder)], cap)
         ELSE s   \* the loop would never end; keys are never "" here
    ELSE s

MemCleanup(s, t, cap) ==
    LET valid   == {k \in Keys : s.store[k].kind # "absent"}
        expired == {k \in valid : isExpired(s.store[k], t)}
        swept   == [store |-> [k \in Keys |-> IF k \in expired THEN Absent ELSE s.store[k]],
                    accessOrder |-> SelectSeq(s.accessOrder,
                                       LAMBDA k : k \in valid /\ k \notin expired)]
    IN  MemEvictLoop(swept, cap)

MemGet(s, key, t) ==
    LET entry == s.store[key] IN
    IF entry.kind = "absent" THEN [s |-> s, r |-> Undefined]
    ELSE IF isExpired(entry, t) THEN [s |-> MemRemove(s, key), r |-> Undefined]
    ELSE [s |-> MemUpdateAccessOrder(s, key), r |-> entry.value]

\* variant of set that never evicts; C1's property must tell it from MemSet
MemSetKeepsAll(s, key, value, ttl, t, cap) ==
    [s |-> MemUpdateAccessOrder([s EXCEPT !.store[key] = NewEntry(value, ttl, t)], key),
     r |-> Void]

MemSet(s, key, value, ttl, t, cap) ==
    LET c == MemCleanup(s, t, cap)
        e == IF MemSize(c) >= cap /\ c.store[key].kind = "absent" /\ Truthy(c.accessOrder)
             THEN [store |-> [c.store EXCEPT ![Head(c.accessOrder)] = Absent],
                   accessOrder |-> Tail(c.accessOrder)]
             ELSE c
        w == [e EXCEPT !.store[key] = NewEntry(value, ttl, t)]
    IN  [s |-> MemUpdateAccessOrder(w, key), r |-> Void]

MemDelete(s, key) == [s |-> MemRemove(s, key), r |-> Void]

MemClear(s) == [s |-> MemEmpty, r |-> Void]

MemHas(s, key, t) ==
    LET entry == s.store[key] IN
    IF entry.kind = "absent" THEN [s |-> s, r |-> "false"]
    ELSE IF isExpired(entry, t) THEN [s |-> MemRemove(s, key), r |-> "false"]
    ELSE [s |-> s, r |-> "true"]

(***************************************************************************)
(* The AccessOrder document of the persistent adapters (one localStorage   *)
(* item, one file).                                                        *)
(*   kind "array"   : JSON text of an array of keys                        *)
(*   kind "absent"  : no document                                          *)
(*   kind "garbage" : text JSON.parse throws on                            *)
(*   kind "object"  : JSON text of something that has no filter method     *)
(*                    ("{}", "null", "5")                                  *)
(***************************************************************************)
OrderDoc(seq)   == [kind |-> "array", keys |-> seq]
OrderAbsent     == [kind |-> "absent", keys |-> <<>>]
OrderBad(kind)  == [kind |-> kind, keys |-> <<>>]
OrderBadKinds   == {"garbage", "object"}

\* getAccessOrder(): try { JSON.parse(doc) } catch { return [] }
\* NotArray: the parsed value is returned as it is and has no filter method
NotArray(doc) == doc.kind = "object"
Arr(doc)      == IF doc.kind = "array" THEN doc.keys ELSE <<>>

(***************************************************************************)
(* LocalStorageAdapter.  ls.items[k] is the item prefix+k, ls.order the    *)
(* item prefix+"__access_order", ls.foreign whether localStorage holds an  *)
(* item of another namespace.                                              *)
(***************************************************************************)
LsEmpty == [items |-> [k \in Keys |-> Absent], order |-> OrderAbsent, foreign |-> TRUE]

\* removeItem(fullKey); order = getAccessOrder().filter(...); setAccessOrder(order)
LsRemoveFromStorage(s, key) ==
    LET s1 == [s EXCEPT !.items[key] = Absent] IN
    IF NotArray(s1.order)
    THEN [s |-> s1, threw |-> TRUE]
    ELSE [s |-> [s1 EXCEPT !.order = OrderDoc(Without(Arr(s1.order), key))],
          threw |-> FALSE]

\* variant of updateAccessOrder that drops the oldest key from AccessOrder
\* but leaves its item stored; C13's property must tell it from
\* LsUpdateAccessOrder
LsUpdateAccessOrderKeepsItem(s, key, cap) ==
    LET order == Append(Without(Arr(s.order), key), key) IN
    [s |-> [s EXCEPT !.order = OrderDoc(IF Len(order) > cap THEN Tail(order) ELSE order)],
     threw |-> FALSE]

LsUpdateAccessOrder(s, key, cap) ==
    IF NotArray(s.order) THEN [s |-> s, threw |-> TRUE]
    ELSE LET order == Append(Without(Arr(s.order), key), key) IN
         IF Len(order) > cap
         THEN LET rest == Tail(order)
                  s1   == IF Truthy(order)
                          THEN LsRemoveFromStorage(s, Head(order)).s
                          ELSE s
              IN  [s |-> [s1 EXCEPT !.order = OrderDoc(rest)], threw |-> FALSE]
         ELSE [s |-> [s EXCEPT !.order = OrderDoc(order)], threw |-> FALSE]

\* the for loop of cleanup over allKeys; acc = [s, accessOrder]
RECURSIVE LsCleanupScan(_, _, _)
LsCleanupScan(acc, allKeys, t) ==
    IF allKeys = <<>> THEN acc
    ELSE LET key == Head(allKeys)
             raw == acc.s.items[key]
             nxt == IF raw.kind = "empty" THEN acc
                    ELSE IF raw.kind = "garbage" \/ isExpired(raw, t)
                    THEN [acc EXCEPT !.s = LsRemoveFromStorage(acc.s, key).s]
                    ELSE IF Includes(acc.accessOrder, key) THEN acc
                    ELSE [acc EXCEPT !.accessOrder = Append(acc.accessOrder, key)]
         IN  LsCleanupScan(nxt, Tail(allKeys), t)

\* while (accessOrder.length > maxSize) { ... }
RECURSIVE LsCleanupEvict(_, _)
LsCleanupEvict(acc, cap) ==
    IF Len(acc.accessOrder) > cap
    THEN LsCleanupEvict(
            [s |-> IF Truthy(acc.accessOrder)
                   THEN LsRemoveFromStorage(acc.s, Head(acc.accessOrder)).s
                   ELSE acc.s,
             accessOrder |-> Tail(acc.accessOrder)], cap)
    ELSE acc

\* allKeys: the stored keys of the namespace in the order Object.keys lists them
LsCleanup(s, t, cap, allKeys) ==
    IF NotArray(s.order) THEN [s |-> s, threw |-> TRUE]
    ELSE LET tracked == SelectSeq(Arr(s.order), LAMBDA k : Includes(allKeys, k))
             scanned == LsCleanupScan([s |-> s, accessOrder |-> tracked], allKeys, t)
             evicted == LsCleanupEvict(scanned, cap)
         IN  [s |-> [evicted.s EXCEPT !.order = OrderDoc(evicted.accessOrder)],
              threw |-> FALSE]

\* variant of the catch block of get that rethrows; C9's property must tell
\* it from LsGetCatch
LsGetRethrows(s, key) == [s |-> s, r |-> Threw]

\* the catch block of get
LsGetCatch(s, key) ==
    LET rm == LsRemoveFromStorage(s, key) IN
    [s |-> rm.s, r |-> IF rm.threw THEN Threw ELSE Undefined]

LsGet(s, key, t, cap) ==
    LET raw == s.items[key] IN
    IF raw.kind \in {"absent", "empty"} THEN [s |-> s, r |-> Undefined]
    ELSE IF raw.kind = "garbage" THEN LsGetCatch(s, key)
    ELSE IF isExpired(raw, t)
    THEN LET rm == LsRemoveFromStorage(s, key) IN
         IF rm.threw THEN LsGetCatch(rm.s, key) ELSE [s |-> rm.s, r |-> Undefined]
    ELSE LET up == LsUpdateAccessOrder(s, key, cap) IN
         IF up.threw THEN LsGetCatch(up.s, key) ELSE [s |-> up.s, r |-> raw.value]

\* variant of set that keeps the expiry of the entry it overwrites; C5's
\* property must tell it from LsSet
LsSetKeepsExpiry(s, key, value, ttl, t, cap, fails, allKeys) ==
    LET old   == s.items[key]
        entry == IF old.kind = "entry"
                 THEN [NewEntry(value, ttl, t) EXCEPT !.expiry = old.expiry]
                 ELSE NewEntry(value, ttl, t)
        up    == LsUpdateAccessOrder([s EXCEPT !.items[key] = entry], key, cap)
    IN  [s |-> up.s, r |-> IF up.threw THEN Threw ELSE Void]

\* variant of set that does not retry after cleanup; C11's property must tell
\* it from LsSet
LsSetGivesUp(s, key, value, ttl, t, cap, fails, allKeys) ==
    IF fails >= 1 THEN [s |-> s, r |-> Threw]
    ELSE LET up == LsUpdateAccessOrder([s EXCEPT !.items[key] = NewEntry(value, ttl, t)],
                                       key, cap)
         IN  [s |-> up.s, r |-> IF up.threw THEN Threw ELSE Void]

\* fails: how many of the writes of the entry the store rejects (first, retry)
LsSet(s, key, value, ttl, t, cap, fails, allKeys) ==
    LET entry   == NewEntry(value, ttl, t)
        written == [s EXCEPT !.items[key] = entry]
        first   == IF fails >= 1 THEN [s |-> s, threw |-> TRUE]
                   ELSE LsUpdateAccessOrder(written, key, cap)
    IN  IF ~first.threw THEN [s |-> first.s, r |-> Void]
        ELSE LET cl == LsCleanup(first.s, t, cap,
                                 SelectSeq(allKeys,
                                     LAMBDA k : first.s.items[k].kind # "absent"))
             IN  IF cl.threw \/ fails >= 2 THEN [s |-> cl.s, r |-> Threw]
                 ELSE LET again == LsUpdateAccessOrder(
                                      [cl.s EXCEPT !.items[key] = entry], key, cap)
                      IN  [s |-> again.s, r |-> IF again.threw THEN Threw ELSE Void]

LsDelete(s, key) ==
    LET rm == LsRemoveFromStorage(s, key) IN
    [s |-> rm.s, r |-> IF rm.threw THEN Threw ELSE Void]

\* removes the prefixed items, then localStorage.clear()
LsClear(s) ==
    [s |-> [items |-> [k \in Keys |-> Absent], order |-> OrderAbsent, foreign |-> FALSE],
     r |-> Void]

LsHas(s, key, t, cap) ==
    LET g == LsGet(s, key, t, cap) IN
    [s |-> g.s, r |-> IF g.r = Threw THEN Threw
                      ELSE IF g.r # Undefined THEN "true" ELSE "false"]

(***************************************************************************)
(* FileSystemAdapter.  fsys.files[k] is the file <md5(k)>.json, fsys.order *)
(* the file __access_order.json.  The elements of its AccessOrder are      *)
(* strings of two origins, kept apart here: the keys get/set/delete were   *)
(* called with (Raw) and the file names cleanup lists, with ".json" cut    *)
(* off (Hash).  md5 is taken to be free of collisions and no key is the    *)
(* md5 text of a key.                                                      *)
(***************************************************************************)
Raw(key)  == <<"raw", key>>
Hash(key) == <<"md5", key>>     \* crypto.createHash('md5').update(key).digest('hex')

FsEmpty == [files |-> [k \in Keys |-> Absent], order |-> OrderAbsent]

FsTruthy(seq) == Len(seq) > 0 /\ Head(seq) # Raw("")

\* fs.unlink(path.join(directory, `${name}.json`)) inside try/catch: only a
\* hash names a file
FsUnlinkNamed(s, name) ==
    IF name[1] = "md5" THEN [s EXCEPT !.files[name[2]] = Absent] ELSE s

\* order = (await getAccessOrder()).filter(k => k !== key); push; setAccessOrder
FsUpdateAccessOrder(s, key) ==
    IF NotArray(s.order) THEN [s |-> s, threw |-> TRUE]
    ELSE [s |-> [s EXCEPT !.order = OrderDoc(Append(Without(Arr(s.order), Raw(key)),
                                                    Raw(key)))],
          threw |-> FALSE]

\* the for loop of cleanup over the directory listing; acc = [s, validKeys]
RECURSIVE FsCleanupScan(_, _, _)
FsCleanupScan(acc, listing, t) ==
    IF listing = <<>> THEN acc
    ELSE LET k    == Head(listing)
             file == acc.s.files[k]
             nxt  == IF file.kind \in {"garbage", "empty"} \/ isExpired(file, t)
                     THEN [acc EXCEPT !.s.files[k] = Absent]
                     ELSE [acc EXCEPT !.validKeys = Append(acc.validKeys, Hash(k))]
         IN  FsCleanupScan(nxt, Tail(listing), t)

\* validKeys.forEach(key => { if (!updatedOrder.includes(key)) push })
RECURSIVE FsAddMissing(_, _)
FsAddMissing(order, validKeys) ==
    IF validKeys = <<>> THEN order
    ELSE FsAddMissing(IF Includes(order, Head(validKeys)) THEN order
                      ELSE Append(order, Head(validKeys)),
                      Tail(validKeys))

\* while (updatedOrder.length > maxSize) { shift; unlink }
RECURSIVE FsCleanupEvict(_, _)
FsCleanupEvict(acc, cap) ==
    IF Len(acc.order) > cap
    THEN FsCleanupEvict([s |-> IF FsTruthy(acc.order)
                               THEN FsUnlinkNamed(acc.s, Head(acc.order))
                               ELSE acc.s,
                         order |-> Tail(acc.order)], cap)
    ELSE acc

\* listing: the entry files of the directory in the order readdir lists them
FsCleanup(s, t, cap, listing) ==
    LET scanned == FsCleanupScan([s |-> s, validKeys |-> <<>>], listing, t) IN
    IF NotArray(s.order) THEN [s |-> scanned.s, threw |-> TRUE]
    ELSE LET kept    == SelectSeq(Arr(s.order),
                                  LAMBDA k : Includes(scanned.validKeys, k))
             updated == FsAddMissing(kept, scanned.validKeys)
             evicted == FsCleanupEvict([s |-> scanned.s, order |-> updated], cap)
         IN  [s |-> [evicted.s EXCEPT !.order = OrderDoc(evicted.order)],
              threw |-> FALSE]

FsGet(s, key, t) ==
    LET file == s.files[key] IN
    IF file.kind \in {"absent", "garbage", "empty"} THEN [s |-> s, r |-> Undefined]
    ELSE IF isExpired(file, t)
    THEN LET s1 == [s EXCEPT !.files[key] = Absent] IN
         IF NotArray(s1.order) THEN [s |-> s1, r |-> Undefined]
         ELSE [s |-> [s1 EXCEPT !.order = OrderDoc(Without(Arr(s1.order), Raw(key)))],
               r |-> Undefined]
    ELSE LET up == FsUpdateAccessOrder(s, key) IN
         IF up.threw THEN [s |-> up.s, r |-> Undefined]
         ELSE [s |-> up.s, r |-> file.value]

FsSet(s, key, value, ttl, t, cap, listing) ==
    LET cl == FsCleanup(s, t, cap,
                        SelectSeq(listing, LAMBDA k : s.files[k].kind # "absent"))
    IN
    IF cl.threw THEN [s |-> cl.s, r |-> Threw]
    ELSE LET currentOrder == Arr(cl.s.order)
             ev == IF ~Includes(currentOrder, Raw(key)) /\ Len(currentOrder) >= cap
                      /\ FsTruthy(currentOrder)
                   THEN [FsUnlinkNamed(cl.s, Head(currentOrder))
                            EXCEPT !.order = OrderDoc(Tail(currentOrder))]
                   ELSE cl.s
             w  == [ev EXCEPT !.files[key] = NewEntry(value, ttl, t)]
             up == FsUpdateAccessOrder(w, key)
         IN  [s |-> up.s, r |-> IF up.threw THEN Threw ELSE Void]

FsDelete(s, key) ==
    IF s.files[key].kind = "absent" THEN [s |-> s, r |-> Void]
    ELSE LET s1 == [s EXCEPT !.files[key] = Absent] IN
         IF NotArray(s1.order) THEN [s |-> s1, r |-> Void]
         ELSE [s |-> [s1 EXCEPT !.order = OrderDoc(Without(Arr(s1.order), Raw(key)))],
               r |-> Void]

\* variant of clear that leaves the AccessOrder document as it was; C6's
\* property must tell it from FsClear
FsClearKeepsOrder(s) ==
    [s |-> [s EXCEPT !.files = [k \in Keys |-> Absent]], r |-> Void]

\* unlinks every file of the directory, then setAccessOrder([])
FsClear(s) ==
    [s |-> [files |-> [k \in Keys |-> Absent], order |-> OrderDoc(<<>>)], r |-> Void]

FsHas(s, key, t) ==
    LET g == FsGet(s, key, t) IN
    [s |-> g.s, r |-> IF g.r # Undefined THEN "true" ELSE "false"]

(***************************************************************************)
(* The callers' side: what was called, and what the calls returned.        *)
(***************************************************************************)
\* the orders in which a listing (readdir, Object.keys) can enumerate S
Listings(S) ==
    {f \in [1 .. Cardinality(S) -> S] : \A i, j \in DOMAIN f : f[i] = f[j] => i = j}

LsStored(s) == {k \in Keys : s.items[k].kind # "absent"}
FsStored(s) == {k \in Keys : s.files[k].kind # "absent"}
MemStored(s) == {k \in Keys : s.store[k].kind # "absent"}

\* the orders in which readdir can list the entry files.  cleanup keeps the
\* files whose names AccessOrder holds in the order AccessOrder has them, so
\* only the order of the other files is enumerated; the named ones come first
FsListings(s) ==
    LET named == {k \in FsStored(s) : Includes(Arr(s.order), Hash(k))}
        first == CHOOSE f \in Listings(named) : TRUE
    IN  {first \o rest : rest \in Listings(FsStored(s) \ named)}

Idle      == "idle"        \* the adapter is not driven in this run
NotDriven(s) == [s |-> s, r |-> Idle]

\* what an adapter stores under a key, and its kind: "absent", a malformed
\* kind, "expiring" (an entry with an expiry) or "plain" (one without)
Doc(a, key) == CASE a = "memory"       -> mem.store[key]
                 [] a = "localStorage" -> ls.items[key]
                 [] a = "fileSystem"   -> fsys.files[key]

Stored(a) == CASE a = "memory"       -> MemStored(mem)
               [] a = "localStorage" -> LsStored(ls)
               [] a = "fileSystem"   -> FsStored(fsys)

\* the AccessOrder of an adapter, as the adapter reads it
AccessOrder(a) == CASE a = "memory"       -> mem.accessOrder
                    [] a = "localStorage" -> Arr(ls.order)
                    [] a = "fileSystem"   -> Arr(fsys.order)

KindOf(doc) == IF doc.kind # "entry" THEN doc.kind
               ELSE IF doc.expiry # NoExpiry THEN "expiring" ELSE "plain"

\* a call, with what each adapter stored when it was made: under the key of
\* the call, or ("stored", "absent") under any key when the call has no key
Call(op, key, value, ttl) ==
    [op |-> op, key |-> key, value |-> value, ttl |-> ttl,
     prior |-> [a \in Adapters |->
                  IF key \in Keys THEN KindOf(Doc(a, key))
                  ELSE IF Stored(a) # {} THEN "stored" ELSE "absent"]]

Untracked == <<[op |-> "untracked", key |-> ""]>>

\* a tracked scenario: at most MaxLog calls from the start, each a set without
\* ttl of a key not set before, but for at most one get or has
LogNext(l, op, key, ttl) ==
    IF l = Untracked \/ Len(l) >= MaxLog THEN Untracked
    ELSE IF op = "set" /\ ttl = 0 /\ ~Includes(l, [op |-> "set", key |-> key])
    THEN Append(l, [op |-> "set", key |-> key])
    ELSE IF op \in {"get", "has"} /\ \A i \in 1 .. Len(l) : l[i].op = "set"
    THEN Append(l, [op |-> op, key |-> key])
    ELSE Untracked

Cap == EffectiveMaxSize(maxSize)

Results(m, l, f) == [a \in Adapters |-> CASE a = "memory"       -> m
                                          [] a = "localStorage" -> l
                                          [] a = "fileSystem"   -> f]

Lockstep == under = Adapters

\* the keys the callers use: enough to overflow the largest capacity when the
\* cache is bounded, KeysNoCap when it is not
CallKeys == IF maxSize = 0 THEN KeysNoCap ELSE Keys

MayCall == limit > 0 => calls < limit
Called  == IF limit > 0 THEN calls + 1 ELSE calls

\* no memoized function, and a Cache nobody listens to
NoMemo     == [ttl |-> 0, invoked |-> FALSE]
NoListener == [listening |-> {}, heard |-> <<>>]

InitWith(driven, lim) ==
    /\ maxSize \in 0 .. MaxCap           \* 0: constructed without maxSize
    /\ now = 1
    /\ mem = MemEmpty
    /\ ls = LsEmpty
    /\ fsys = FsEmpty
    /\ under \in driven
    /\ last = Call("new", "", Undefined, 0)
    /\ res = Results(Void, Void, Void)
    /\ log = <<>>
    /\ limit = lim
    /\ calls = 0
    /\ procs = <<>>
    /\ memo = NoMemo
    /\ facade = NoListener

Init == InitWith({{a} : a \in Adapters}, 0)

\* the name a set goes by in last.op: "set" when every write is accepted
SetOp(fails) == CASE fails = 0 -> "set"
                  [] fails = 1 -> "set, first write rejected"
                  [] OTHER     -> "set, both writes rejected"

\* the types of the events Cache emits itself
EventTypes == {"set", "get", "delete", "clear"}

EventTypeOnAnyGet(op, r) ==
    CASE op \in {SetOp(0), SetOp(1)} /\ r # Threw -> "set"
      [] op = "get" /\ r # Threw -> "get"
      [] op \in {"delete", "clear"} /\ r # Threw -> op
      [] OTHER -> "none"

\* Cache.set, get, delete, clear, has: the type of the event the method emits
\* once the adapter's method returned r, "none" when it emits nothing
EventType(op, r) ==
    CASE op \in {SetOp(0), SetOp(1)} /\ r # Threw -> "set"
      [] op = "get" /\ r \notin {Undefined, Threw} -> "get"
      [] op \in {"delete", "clear"} /\ r # Threw -> op
      [] OTHER -> "none"

\* Cache.emitEvent: the listener is called if it is registered for the type
emitEvent(f, type, key) ==
    IF type \in f.listening
    THEN [f EXCEPT !.heard = Append(@, [type |-> type, key |-> key])]
    ELSE f

\* the three outcomes of a call become the next state; the call goes through
\* a Cache constructed over the adapter under test
Complete(call, m, l, f) ==
    /\ MayCall
    /\ calls' = Called
    /\ mem' = m.s
    /\ ls' = l.s
    /\ fsys' = f.s
    /\ res' = Results(m.r, l.r, f.r)
    /\ last' = call
    /\ log' = LogNext(log, call.op, call.key, call.ttl)
    /\ facade' = LET type == EventType(call.op,
                                       Results(m.r, l.r, f.r)[CHOOSE a \in under : TRUE])
                 IN  IF type = "none" THEN facade ELSE emitEvent(facade, type, call.key)
    /\ UNCHANGED <<maxSize, now, under, limit, procs, memo>>

\* await adapter.set(key, value, {ttl}); fails: the writes of the entry that
\* localStorage rejects; lsKeys: the order in which Object.keys lists the
\* stored keys to cleanup
SetCall(key, value, ttl, fails) ==
    \E lsKeys \in (IF "localStorage" \in under /\ fails > 0
                   THEN Listings(LsStored(ls)) ELSE {<<>>}),
       listing \in (IF "fileSystem" \in under THEN FsListings(fsys) ELSE {<<>>}) :
        Complete(Call(SetOp(fails), key, value, ttl),
                 IF "memory" \in under
                 THEN MemSet(mem, key, value, ttl, now, Cap) ELSE NotDriven(mem),
                 IF "localStorage" \in under
                 THEN LsSet(ls, key, value, ttl, now, Cap, fails, lsKeys) ELSE NotDriven(ls),
                 IF "fileSystem" \in under
                 THEN FsSet(fsys, key, value, ttl, now, Cap, listing) ELSE NotDriven(fsys))

Set == \E key \in CallKeys, value \in Values, ttl \in TTLs : SetCall(key, value, ttl, 0)

Get ==
    \E key \in CallKeys :
        Complete(Call("get", key, Undefined, 0),
                 IF "memory" \in under THEN MemGet(mem, key, now) ELSE NotDriven(mem),
                 IF "localStorage" \in under THEN LsGet(ls, key, now, Cap) ELSE NotDriven(ls),
                 IF "fileSystem" \in under THEN FsGet(fsys, key, now) ELSE NotDriven(fsys))

Has ==
    \E key \in CallKeys :
        Complete(Call("has", key, Undefined, 0),
                 IF "memory" \in under THEN MemHas(mem, key, now) ELSE NotDriven(mem),
                 IF "localStorage" \in under THEN LsHas(ls, key, now, Cap) ELSE NotDriven(ls),
                 IF "fileSystem" \in under THEN FsHas(fsys, key, now) ELSE NotDriven(fsys))

Delete ==
    \E key \in CallKeys :
        Complete(Call("delete", key, Undefined, 0),
                 IF "memory" \in under THEN MemDelete(mem, key) ELSE NotDriven(mem),
                 IF "localStorage" \in under THEN LsDelete(ls, key) ELSE NotDriven(ls),
                 IF "fileSystem" \in under THEN FsDelete(fsys, key) ELSE NotDriven(fsys))

Clear ==
    Complete(Call("clear", "", Undefined, 0),
             IF "memory" \in under THEN MemClear(mem) ELSE NotDriven(mem),
             IF "localStorage" \in under THEN LsClear(ls) ELSE NotDriven(ls),
             IF "fileSystem" \in under THEN FsClear(fsys) ELSE NotDriven(fsys))

\* time passes between two calls
Tick ==
    /\ now < MaxTime
    /\ now' = now + 1
    /\ last' = Call("tick", "", Undefined, 0)
    /\ res' = Results(Void, Void, Void)
    /\ log' = Untracked
    /\ UNCHANGED <<maxSize, mem, ls, fsys, under, limit, calls, procs, memo, facade>>

Next == Set \/ Get \/ Has \/ Delete \/ Clear \/ Tick

Persistent == {"localStorage", "fileSystem"}

\* something other than the adapter writes the item or file of a key:
\* localStorage.setItem('key', 'invalid json'), fs.writeFile(filePath, ...)
CorruptEntry ==
    \E key \in CallKeys, kind \in MalformedKinds :
        /\ under \subseteq Persistent
        /\ MayCall
        /\ calls' = Called
        /\ Doc(CHOOSE a \in under : TRUE, key).kind # kind
        /\ ls' = IF "localStorage" \in under
                 THEN [ls EXCEPT !.items[key] = Malformed(kind)] ELSE ls
        /\ fsys' = IF "fileSystem" \in under
                   THEN [fsys EXCEPT !.files[key] = Malformed(kind)] ELSE fsys
        /\ last' = Call("corruptEntry", key, Undefined, 0)
        /\ res' = Results(Void, Void, Void)
        /\ log' = Untracked
        /\ UNCHANGED <<maxSize, now, mem, under, limit, procs, memo, facade>>

\* something other than the adapter writes the AccessOrder document
CorruptOrder ==
    \E kind \in OrderBadKinds :
        /\ under \subseteq Persistent
        /\ MayCall
        /\ calls' = Called
        /\ ls' = IF "localStorage" \in under THEN [ls EXCEPT !.order = OrderBad(kind)] ELSE ls
        /\ fsys' = IF "fileSystem" \in under
                   THEN [fsys EXCEPT !.order = OrderBad(kind)] ELSE fsys
        /\ last' = Call("corruptOrder", "", Undefined, 0)
        /\ res' = Results(Void, Void, Void)
        /\ log' = Untracked
        /\ UNCHANGED <<maxSize, now, mem, under, limit, procs, memo, facade>>

InitPersistent(lim) == InitWith({{a} : a \in Persistent}, lim)

\* a set during which localStorage.setItem throws on the entry (quota)
SetRejected ==
    \E key \in CallKeys, value \in Values, ttl \in TTLs, fails \in 1 .. MaxFails :
        /\ under = {"localStorage"}
        /\ SetCall(key, value, ttl, fails)

\* cache.addEventListener(type, listener), for the one listener of the test
AddListener ==
    \E type \in EventTypes :
        /\ type \notin facade.listening
        /\ facade' = [facade EXCEPT !.listening = @ \cup {type}]
        /\ UNCHANGED <<maxSize, now, mem, ls, fsys, under, last, res, log, limit, calls,
                       procs, memo>>

\* cache.removeEventListener(type, listener)
RemoveListener ==
    \E type \in EventTypes :
        /\ type \in facade.listening
        /\ facade' = [facade EXCEPT !.listening = @ \ {type}]
        /\ UNCHANGED <<maxSize, now, mem, ls, fsys, under, last, res, log, limit, calls,
                       procs, memo>>

\* await cache.set(key, 'value'): the events do not depend on value or ttl
FacadeSet == \E key \in CallKeys : SetCall(key, "v1", 0, 0)

NextFacade == FacadeSet \/ Get \/ Has \/ Delete \/ Clear \/ AddListener \/ RemoveListener
NextWriteFails == Next \/ SetRejected
NextMalformed == Next \/ CorruptEntry
NextCorrupt   == Next \/ CorruptEntry \/ CorruptOrder

\* one adapter, a single writer, every call awaited, no write failure, nothing
\* else touches the backing store
Spec == Init /\ [][Next]_vars

\* the same, the three adapters driven in lockstep
SpecLockstep == InitWith({Adapters}, MaxCalls) /\ [][Next]_vars

\* LocalStorageAdapter on a store that rejects writes of entries
\* options.ttl is a number: a caller can pass a negative one
CallerTtls == (0 - MaxTtl) .. MaxTtl

\* await adapter.set(key, 'value', {ttl}) with any ttl a caller can pass
SetAnyTtl == \E key \in CallKeys, ttl \in CallerTtls : SetCall(key, "v1", ttl, 0)

NextAnyTtl == SetAnyTtl \/ Get \/ Has \/ Delete \/ Clear \/ Tick

\* one adapter, at most MaxCalls awaited calls, the ttl of a set any number
SpecAnyTtl == InitWith({{a} : a \in Adapters}, MaxCalls) /\ [][NextAnyTtl]_vars

\* new Cache() over one adapter, its listener registered and removed between
\* at most MaxFacadeCalls awaited calls
InitFacade == InitWith({{a} : a \in Adapters}, MaxFacadeCalls) /\ maxSize = 0

SpecFacade == InitFacade /\ [][NextFacade]_vars

SpecWriteFails == InitWith({{"localStorage"}}, 0) /\ [][NextWriteFails]_vars

\* one persistent adapter whose entries are overwritten from outside, in a
\* run of MaxCalls calls and overwrites
SpecMalformed == InitPersistent(MaxCalls) /\ [][NextMalformed]_vars

\* await this.cleanup() of a persistent adapter, run to completion on its own
Repair ==
    \E lsKeys \in (IF "localStorage" \in under THEN Listings(LsStored(ls)) ELSE {<<>>}),
       listing \in (IF "fileSystem" \in under THEN FsListings(fsys) ELSE {<<>>}) :
        LET l == LsCleanup(ls, now, Cap, lsKeys)
            f == FsCleanup(fsys, now, Cap, listing)
        IN  /\ under \subseteq Persistent
            /\ Complete(Call("cleanup", "", Undefined, 0),
                        NotDriven(mem),
                        IF "localStorage" \in under
                        THEN [s |-> l.s, r |-> IF l.threw THEN Threw ELSE Void]
                        ELSE NotDriven(ls),
                        IF "fileSystem" \in under
                        THEN [s |-> f.s, r |-> IF f.threw THEN Threw ELSE Void]
                        ELSE NotDriven(fsys))

NextRepair == Next \/ CorruptEntry \/ Repair

\* one persistent adapter whose entries are overwritten from outside and whose
\* cleanup is run between the calls, in a run of MaxRepairCalls steps
SpecRepair == InitPersistent(MaxRepairCalls) /\ [][NextRepair]_vars

\* one persistent adapter whose entries and AccessOrder document are
\* overwritten from outside, in a run of MaxCorruptCalls calls and overwrites
SpecCorrupt == InitPersistent(MaxCorruptCalls) /\ [][NextCorrupt]_vars

(***************************************************************************)
(* Overlapping calls on one FileSystemAdapter: set calls issued without    *)
(* awaiting each other, procs[1] first.  Each step below is one awaited    *)
(* file operation of fileSystem.ts with the synchronous code up to the     *)
(* next await.  fs.writeFile is two operations, the open that truncates    *)
(* the file and the write of the text; a write through a descriptor whose  *)
(* file was unlinked meanwhile reaches no file of the directory.  The      *)
(* writes of __access_order.json, and the unlinks of the eviction loops    *)
(* (which never run without maxSize), are taken with the step that         *)
(* follows them.                                                           *)
(***************************************************************************)
Procs == 1 .. Len(procs)

Pending == "pending"     \* the call has not settled

\* a set that was issued and has not run to its first await
IssuedSet(key, value) ==
    [key |-> key, value |-> value, pc |-> "readdir", listing |-> <<>>,
     order |-> <<>>, validKeys |-> <<>>, lost |-> FALSE, r |-> Pending]

InitOverlap ==
    /\ maxSize = 0
    /\ now = 1
    /\ mem = MemEmpty
    /\ ls = LsEmpty
    /\ fsys = FsEmpty
    /\ under = {"fileSystem"}
    /\ last = Call("new", "", Undefined, 0)
    /\ res = Results(Void, Void, Void)
    /\ log = <<>>
    /\ limit = 0
    /\ calls = 0
    /\ memo = NoMemo
    /\ facade = NoListener
    /\ procs \in [1 .. MaxProcs -> {IssuedSet(k, v) : k \in KeysNoCap, v \in Values}]

\* process i moves on, the directory becoming s
Step(i, s, proc) ==
    /\ fsys' = s
    /\ procs' = [procs EXCEPT ![i] = proc]
    /\ UNCHANGED <<maxSize, now, mem, ls, under, last, res, log, limit, calls, memo,
                            facade>>

\* where the for loop of cleanup goes with the files left to process
ScanOrWrite(listing) == IF listing = <<>> THEN "writeOrder" ELSE "scan"

\* cleanup: const files = await fs.readdir(this.directory)
SetReaddir ==
    \E i \in Procs, listing \in FsListings(fsys) :
        /\ procs[i].pc = "readdir"
        /\ Step(i, fsys, [procs[i] EXCEPT !.pc = "readOrder", !.listing = listing])

\* cleanup: const accessOrder = await this.getAccessOrder()
SetReadOrder ==
    \E i \in Procs :
        /\ procs[i].pc = "readOrder"
        /\ Step(i, fsys, [procs[i] EXCEPT !.pc = ScanOrWrite(procs[i].listing),
                                          !.order = Arr(fsys.order)])

\* cleanup: content = await fs.readFile(filePath); JSON.parse; isExpired
SetScan ==
    \E i \in Procs :
        /\ procs[i].pc = "scan"
        /\ LET k    == Head(procs[i].listing)
               file == fsys.files[k]
           IN  IF file.kind \in {"absent", "garbage", "empty"} \/ isExpired(file, now)
               THEN Step(i, fsys, [procs[i] EXCEPT !.pc = "unlink"])
               ELSE Step(i, fsys,
                         [procs[i] EXCEPT !.pc = ScanOrWrite(Tail(procs[i].listing)),
                                          !.listing = Tail(procs[i].listing),
                                          !.validKeys = Append(procs[i].validKeys, Hash(k))])

\* the writes in flight to the file of key reach no file once it is unlinked
Unlinked(key) ==
    [j \in Procs |-> IF procs[j].pc = "write" /\ procs[j].key = key
                     THEN [procs[j] EXCEPT !.lost = TRUE] ELSE procs[j]]

\* cleanup: await fs.unlink(filePath), of an expired or unparseable file; it
\* throws out of cleanup, and of set, when the file is not there
SetUnlink ==
    \E i \in Procs :
        /\ procs[i].pc = "unlink"
        /\ LET k == Head(procs[i].listing) IN
           IF fsys.files[k].kind = "absent"
           THEN Step(i, fsys, [procs[i] EXCEPT !.pc = "done", !.r = Threw])
           ELSE /\ fsys' = [fsys EXCEPT !.files[k] = Absent]
                /\ procs' = [Unlinked(k) EXCEPT
                                ![i] = [procs[i] EXCEPT
                                           !.pc = ScanOrWrite(Tail(procs[i].listing)),
                                           !.listing = Tail(procs[i].listing)]]
                /\ UNCHANGED <<maxSize, now, mem, ls, under, last, res, log, limit, calls, memo,
                            facade>>

\* cleanup: updatedOrder, the eviction loop, await this.setAccessOrder(updatedOrder)
SetWriteOrder ==
    \E i \in Procs :
        /\ procs[i].pc = "writeOrder"
        /\ LET kept    == SelectSeq(procs[i].order,
                                    LAMBDA k : Includes(procs[i].validKeys, k))
               updated == FsAddMissing(kept, procs[i].validKeys)
               evicted == FsCleanupEvict([s |-> fsys, order |-> updated], Cap)
           IN  Step(i, [evicted.s EXCEPT !.order = OrderDoc(evicted.order)],
                    [procs[i] EXCEPT !.pc = "check"])

\* set: const currentOrder = await this.getAccessOrder(); the capacity check
SetCheck ==
    \E i \in Procs :
        /\ procs[i].pc = "check"
        /\ LET currentOrder == Arr(fsys.order)
               s == IF ~Includes(currentOrder, Raw(procs[i].key))
                       /\ Len(currentOrder) >= Cap /\ FsTruthy(currentOrder)
                    THEN [FsUnlinkNamed(fsys, Head(currentOrder))
                             EXCEPT !.order = OrderDoc(Tail(currentOrder))]
                    ELSE fsys
           IN  Step(i, s, [procs[i] EXCEPT !.pc = "open"])

\* set: fs.writeFile(filePath, ...), the open with flag 'w'
SetOpen ==
    \E i \in Procs :
        /\ procs[i].pc = "open"
        /\ Step(i, [fsys EXCEPT !.files[procs[i].key] = Malformed("empty")],
                [procs[i] EXCEPT !.pc = "write", !.lost = FALSE])

\* set: fs.writeFile(filePath, JSON.stringify(entry)), the write
SetWrite ==
    \E i \in Procs :
        /\ procs[i].pc = "write"
        /\ Step(i, IF procs[i].lost THEN fsys
                   ELSE [fsys EXCEPT !.files[procs[i].key] =
                                        NewEntry(procs[i].value, 0, now)],
                [procs[i] EXCEPT !.pc = "update"])

\* updateAccessOrder: order = (await this.getAccessOrder()).filter(...); push
SetUpdate ==
    \E i \in Procs :
        /\ procs[i].pc = "update"
        /\ Step(i, fsys,
                [procs[i] EXCEPT !.pc = "setOrder",
                                 !.order = Append(Without(Arr(fsys.order),
                                                          Raw(procs[i].key)),
                                                  Raw(procs[i].key))])

\* updateAccessOrder: await this.setAccessOrder(order); set resolves
SetSetOrder ==
    \E i \in Procs :
        /\ procs[i].pc = "setOrder"
        /\ Step(i, [fsys EXCEPT !.order = OrderDoc(procs[i].order)],
                [procs[i] EXCEPT !.pc = "done", !.r = Void])

NextOverlap ==
    \/ SetReaddir \/ SetReadOrder \/ SetScan \/ SetUnlink \/ SetWriteOrder
    \/ SetCheck \/ SetOpen \/ SetWrite \/ SetUpdate \/ SetSetOrder

\* MaxProcs sets issued together on an empty directory, without maxSize or ttl
SpecOverlap == InitOverlap /\ [][NextOverlap]_vars

\* every overlapping call has settled
AllDone == procs # <<>> /\ \A i \in Procs : procs[i].pc = "done"

\* the call issued last on the key of call i
LastIssued(i) ==
    CHOOSE j \in Procs :
        /\ procs[j].key = procs[i].key
        /\ \A h \in Procs : procs[h].key = procs[i].key => h <= j

\* the cleanup pass of the next set, once the overlapping calls have settled
RepairInQuiescence == AllDone /\ last.op # "cleanup" /\ Repair

NextOverlapRepair == NextOverlap \/ RepairInQuiescence

\* MaxProcs sets issued together, then one cleanup pass run on its own
SpecOverlapRepair == InitOverlap /\ [][NextOverlapRepair]_vars

(***************************************************************************)
(* delete and clear of FileSystemAdapter overlapping with set and with     *)
(* each other, on a directory an earlier awaited set has written to.       *)
(***************************************************************************)
OrderFile == "__access_order.json"

\* a delete, and a clear, that were issued and have not run to their first await
IssuedDelete(key) == [IssuedSet(key, Undefined) EXCEPT !.pc = "delUnlink"]
IssuedClear == [IssuedSet("", Undefined) EXCEPT !.pc = "clearReaddir"]

RaceOps ==
    {IssuedSet(k, "v1") : k \in KeysNoCap} \cup {IssuedDelete(k) : k \in KeysNoCap}
        \cup {IssuedClear}

\* the directory is created, then one entry is written at time 1, with or
\* without ttl; the overlapping calls are issued at time MaxTime
InitRace ==
    /\ maxSize = 0
    /\ now = MaxTime
    /\ mem = MemEmpty
    /\ ls = LsEmpty
    /\ fsys \in {FsSet(FsEmpty, k, "v1", ttl, 1, EffectiveMaxSize(0), <<>>).s :
                    k \in KeysNoCap, ttl \in TTLs}
    /\ under = {"fileSystem"}
    /\ last = Call("new", "", Undefined, 0)
    /\ res = Results(Void, Void, Void)
    /\ log = <<>>
    /\ limit = 0
    /\ calls = 0
    /\ memo = NoMemo
    /\ facade = NoListener
    /\ procs \in [1 .. MaxProcs -> RaceOps]

\* fs.unlink of the file of key succeeds: the file goes, and the writes in
\* flight to it reach no file
UnlinkBy(i, key, proc) ==
    /\ fsys' = [fsys EXCEPT !.files[key] = Absent]
    /\ procs' = [Unlinked(key) EXCEPT ![i] = proc]
    /\ UNCHANGED <<maxSize, now, mem, ls, under, last, res, log, limit, calls, memo,
                   facade>>

\* delete: await fs.unlink(filePath); ENOENT is caught and delete resolves
DelUnlink ==
    \E i \in Procs :
        /\ procs[i].pc = "delUnlink"
        /\ IF fsys.files[procs[i].key].kind = "absent"
           THEN Step(i, fsys, [procs[i] EXCEPT !.pc = "done", !.r = Void])
           ELSE UnlinkBy(i, procs[i].key, [procs[i] EXCEPT !.pc = "delReadOrder"])

\* delete: order = (await this.getAccessOrder()).filter(k => k !== key)
DelReadOrder ==
    \E i \in Procs :
        /\ procs[i].pc = "delReadOrder"
        /\ Step(i, fsys, [procs[i] EXCEPT !.pc = "delSetOrder",
                                          !.order = Without(Arr(fsys.order),
                                                            Raw(procs[i].key))])

\* delete: await this.setAccessOrder(order); delete resolves
DelSetOrder ==
    \E i \in Procs :
        /\ procs[i].pc = "delSetOrder"
        /\ Step(i, [fsys EXCEPT !.order = OrderDoc(procs[i].order)],
                [procs[i] EXCEPT !.pc = "done", !.r = Void])

\* the files readdir lists to clear: the entry files and __access_order.json
DirListing(s) ==
    (CHOOSE f \in Listings(FsStored(s)) : TRUE)
        \o (IF s.order.kind = "absent" THEN <<>> ELSE <<OrderFile>>)

\* after one of the unlinks of clear, with the names still to unlink
ClearGoesOn(rest) == IF rest = <<>> THEN "clearSetOrder" ELSE "clearUnlink"

\* clear: const files = await fs.readdir(this.directory); the unlinks are
\* issued together
ClearReaddir ==
    \E i \in Procs :
        /\ procs[i].pc = "clearReaddir"
        /\ Step(i, fsys, [procs[i] EXCEPT !.pc = ClearGoesOn(DirListing(fsys)),
                                          !.listing = DirListing(fsys)])

\* the sequence without its element at n
Except(seq, n) == SubSeq(seq, 1, n - 1) \o SubSeq(seq, n + 1, Len(seq))

\* clear: one of the unlinks of Promise.all completes, in any order.  On a
\* file that is gone it rejects with ENOENT: Promise.all rejects, the catch
\* block swallows it and clear resolves without setAccessOrder, while the
\* unlinks already issued go on (pc "clearRest")
ClearUnlink ==
    \E i \in Procs :
        /\ procs[i].pc \in {"clearUnlink", "clearRest"}
        /\ \E n \in 1 .. Len(procs[i].listing) :
            LET name    == procs[i].listing[n]
                rest    == Except(procs[i].listing, n)
                goes    == IF procs[i].pc = "clearRest"
                           THEN (IF rest = <<>> THEN "done" ELSE "clearRest")
                           ELSE ClearGoesOn(rest)
                missing == IF name = OrderFile THEN fsys.order.kind = "absent"
                           ELSE fsys.files[name].kind = "absent"
                caught  == [procs[i] EXCEPT !.pc = IF rest = <<>> THEN "done" ELSE "clearRest",
                                            !.listing = rest, !.r = Void]
                onward  == [procs[i] EXCEPT !.pc = goes, !.listing = rest]
            IN  IF missing
                THEN Step(i, fsys, IF procs[i].pc = "clearRest" THEN onward ELSE caught)
                ELSE IF name = OrderFile
                THEN Step(i, [fsys EXCEPT !.order = OrderAbsent], onward)
                ELSE UnlinkBy(i, name, onward)

\* clear: await this.setAccessOrder([]); clear resolves
ClearSetOrder ==
    \E i \in Procs :
        /\ procs[i].pc = "clearSetOrder"
        /\ Step(i, [fsys EXCEPT !.order = OrderDoc(<<>>)],
                [procs[i] EXCEPT !.pc = "done", !.r = Void])

NextRace ==
    \/ NextOverlap
    \/ DelUnlink \/ DelReadOrder \/ DelSetOrder
    \/ ClearReaddir \/ ClearUnlink \/ ClearSetOrder

\* MaxProcs calls among set, delete and clear issued together
SpecRace == InitRace /\ [][NextRace]_vars

(***************************************************************************)
(* memoize(fn, options): a MemoryAdapter constructed with the options      *)
(* (mem), and the function returned, called with arguments the keyResolver *)
(* resolves to key.  result is what fn returns to this call if invoked:    *)
(* one of Values, or undefined.                                            *)
(***************************************************************************)
FnResults == Values \cup {Undefined}

Memoized ==
    \E key \in CallKeys, result \in FnResults :
        LET cached == MemGet(mem, key, now)
            stored == MemSet(cached.s, key, result, memo.ttl, now, Cap)
        IN  /\ under = {"memory"}
            /\ MayCall
            /\ calls' = Called
            /\ IF cached.r # Undefined
               THEN /\ mem' = cached.s
                    /\ res' = Results(cached.r, Idle, Idle)
                    /\ memo' = [memo EXCEPT !.invoked = FALSE]
               ELSE /\ mem' = stored.s
                    /\ res' = Results(result, Idle, Idle)
                    /\ memo' = [memo EXCEPT !.invoked = TRUE]
            /\ last' = Call("memoized", key, result, memo.ttl)
            /\ log' = Untracked
            /\ UNCHANGED <<maxSize, now, ls, fsys, under, limit, procs, facade>>

InitMemoize ==
    /\ maxSize \in 0 .. MaxCap
    /\ now = 1
    /\ mem = MemEmpty
    /\ ls = LsEmpty
    /\ fsys = FsEmpty
    /\ under = {"memory"}
    /\ last = Call("new", "", Undefined, 0)
    /\ res = Results(Void, Void, Void)
    /\ log = <<>>
    /\ limit = 0
    /\ calls = 0
    /\ procs = <<>>
    /\ memo \in {[ttl |-> ttl, invoked |-> FALSE] : ttl \in TTLs}
    /\ facade = NoListener

NextMemoize == Memoized \/ Tick

\* awaited calls of one memoized function, and the clock
SpecMemoize == InitMemoize /\ [][NextMemoize]_vars

\* memoize's cache holds an entry for the key that has not expired
Cached(key) == mem.store[key].kind = "entry" /\ ~isExpired(mem.store[key], now)

(***************************************************************************)
(* Calls of one memoized function that overlap.  cache.get and cache.set   *)
(* of MemoryAdapter run without an await inside, so a call is three        *)
(* steps: the get, the invocation of fn, and the set once fn resolved.     *)
(* returns: what fn does for this call if invoked, a value or a rejection. *)
(***************************************************************************)
Rejects == "rejects"

IssuedCall(key, returns) ==
    [key |-> key, returns |-> returns, pc |-> "get", invoked |-> FALSE, r |-> Pending]

InitMemoOverlap ==
    /\ maxSize = 0
    /\ now = 1
    /\ mem = MemEmpty
    /\ ls = LsEmpty
    /\ fsys = FsEmpty
    /\ under = {"memory"}
    /\ last = Call("new", "", Undefined, 0)
    /\ res = Results(Void, Void, Void)
    /\ log = <<>>
    /\ limit = 0
    /\ calls = 0
    /\ memo = NoMemo
    /\ facade = NoListener
    /\ procs \in [1 .. MaxProcs ->
                    {IssuedCall(k, v) : k \in KeysNoCap, v \in Values \cup {Rejects}}]

\* call i moves on, memoize's cache becoming s
MemoStep(i, s, proc) ==
    /\ mem' = s
    /\ procs' = [procs EXCEPT ![i] = proc]
    /\ UNCHANGED <<maxSize, now, ls, fsys, under, last, res, log, limit, calls, memo,
                   facade>>

\* const cached = await cache.get(key); if (cached !== undefined) return cached
MemoGet ==
    \E i \in Procs :
        /\ procs[i].pc = "get"
        /\ LET cached == MemGet(mem, procs[i].key, now) IN
           IF cached.r # Undefined
           THEN MemoStep(i, cached.s, [procs[i] EXCEPT !.pc = "done", !.r = cached.r])
           ELSE MemoStep(i, cached.s, [procs[i] EXCEPT !.pc = "invoke"])

\* const result = await fn(...args): a rejection leaves the wrapper
MemoInvoke ==
    \E i \in Procs :
        /\ procs[i].pc = "invoke"
        /\ IF procs[i].returns = Rejects
           THEN MemoStep(i, mem, [procs[i] EXCEPT !.pc = "done", !.invoked = TRUE,
                                                  !.r = Threw])
           ELSE MemoStep(i, mem, [procs[i] EXCEPT !.pc = "set", !.invoked = TRUE])

\* await cache.set(key, result, options); return result
MemoSet ==
    \E i \in Procs :
        /\ procs[i].pc = "set"
        /\ MemoStep(i, MemSet(mem, procs[i].key, procs[i].returns, memo.ttl, now, Cap).s,
                    [procs[i] EXCEPT !.pc = "done", !.r = procs[i].returns])

NextMemoOverlap == MemoGet \/ MemoInvoke \/ MemoSet

\* MaxProcs calls of one memoized function issued without awaiting
SpecMemoOverlap == InitMemoOverlap /\ [][NextMemoOverlap]_vars

(***************************************************************************)
(* What a caller would observe in the current state.                       *)
(***************************************************************************)
\* what await adapter.get(key) would return now
GetR(a, key) == CASE a = "memory"       -> MemGet(mem, key, now).r
                  [] a = "localStorage" -> LsGet(ls, key, now, Cap).r
                  [] a = "fileSystem"   -> FsGet(fsys, key, now).r

\* what await adapter.has(key) would return now
HasR(a, key) == CASE a = "memory"       -> MemHas(mem, key, now).r
                  [] a = "localStorage" -> LsHas(ls, key, now, Cap).r
                  [] a = "fileSystem"   -> FsHas(fsys, key, now).r

Hit(a, key)  == GetR(a, key) \notin {Undefined, Threw}
Miss(a, key) == GetR(a, key) = Undefined

\* the tracked scenario is a sequence of n sets (of distinct keys, without ttl)
SetsOnly(l, n) == l # Untracked /\ Len(l) = n /\ \A i \in 1 .. n : l[i].op = "set"

\* the tracked scenario is set x, set y, <read> x, set z with x, y, z distinct
ReadBetweenSets(l, read) ==
    /\ l # Untracked
    /\ Len(l) = 4
    /\ l[1].op = "set" /\ l[2].op = "set" /\ l[4].op = "set"
    /\ l[3] = [op |-> read, key |-> l[1].key]

C2_GetRenewsRecency ==
    \A a \in under :
        (maxSize = 2 /\ ReadBetweenSets(log, "get")) =>
            /\ Miss(a, log[2].key)
            /\ Hit(a, log[1].key)
            /\ Hit(a, log[4].key)

(***************************************************************************)
(* C3: an entry written by set with ttl = d > 0 at time t carries the      *)
(* expiry t + d, and for every entry with an expiry get and has report a   *)
(* hit at every time now < expiry and a miss at every time now >= expiry   *)
(* (the boundary instant is a miss), in every adapter.                     *)
(***************************************************************************)
C3_TtlBoundary ==
    \A a \in under :
        /\ (last.op = "set" /\ last.ttl > 0) =>
               /\ Doc(a, last.key).timestamp = now
               /\ Doc(a, last.key).expiry = now + last.ttl
        /\ \A k \in Keys :
               LET e == Doc(a, k) IN
               (e.kind = "entry" /\ e.expiry # NoExpiry) =>
                   /\ now <  e.expiry => GetR(a, k) = e.value  /\ HasR(a, k) = "true"
                   /\ now >= e.expiry => GetR(a, k) = Undefined /\ HasR(a, k) = "false"

\* a get at the boundary instant of an entry with ttl 1 set one tick earlier
C3_Witness ==
    /\ last.op = "get"
    /\ now = 2
    /\ \A a \in under : last.prior[a] = "expiring" /\ res[a] = Undefined

(***************************************************************************)
(* C4: without maxSize, a key that is a hit stays a hit over every step    *)
(* but its delete, a clear, and the tick that reaches its expiry; a set    *)
(* makes its key a hit.  An entry without ttl never becomes a miss by the  *)
(* passage of time.                                                        *)
(***************************************************************************)
C4_Step ==
    maxSize = 0 =>
        \A a \in under :
            /\ \A k \in Keys : (last'.op = "set" /\ last'.key = k) => Hit(a, k)'
            /\ \A k \in Keys :
                   (Hit(a, k) /\ ~Hit(a, k)') =>
                       \/ last'.op = "delete" /\ last'.key = k
                       \/ last'.op = "clear"
                       \/ /\ last'.op = "tick"
                          /\ Doc(a, k).expiry # NoExpiry
                          /\ now' >= Doc(a, k).expiry

C4_NoCapNoLoss == [][C4_Step]_vars

\* more keys held than MaxCap - 1 without maxSize, one of them set before the
\* clock advanced
C4_Witness ==
    /\ maxSize = 0
    /\ now = 2
    /\ last.op = "get"
    /\ \A a \in under :
           /\ \A k \in KeysNoCap : Hit(a, k)
           /\ \E k \in Keys : Doc(a, k).timestamp = 1 /\ Doc(a, k).expiry = NoExpiry

(***************************************************************************)
(* C5: after set(k, v) get(k) returns v, also when k held another entry:   *)
(* the entry stored is the new one as a whole, value, creation time and    *)
(* expiry (none when the set passed no ttl).                               *)
(***************************************************************************)
C5_LastWriteWins ==
    \A a \in under :
        last.op = "set" =>
            /\ GetR(a, last.key) = last.value
            /\ Doc(a, last.key).kind = "entry"
            /\ Doc(a, last.key).value = last.value
            /\ Doc(a, last.key).timestamp = now
            /\ Doc(a, last.key).expiry =
                   IF last.ttl = 0 THEN NoExpiry ELSE now + last.ttl

\* a set without ttl on a key that held an entry with an expiry
C5_Witness ==
    /\ last.op = "set"
    /\ last.ttl = 0
    /\ \A a \in under :
           /\ last.prior[a] = "expiring"
           /\ Doc(a, last.key).expiry = NoExpiry
           /\ GetR(a, last.key) = last.value

(***************************************************************************)
(* C6: after clear() every key is a miss on get and false on has, nothing  *)
(* is stored and AccessOrder is empty, in every adapter.                   *)
(***************************************************************************)
C6_ClearEmpties ==
    \A a \in under :
        last.op = "clear" =>
            /\ \A k \in Keys : GetR(a, k) = Undefined /\ HasR(a, k) = "false"
            /\ Stored(a) = {}
            /\ AccessOrder(a) = <<>>

C6_Witness ==
    /\ last.op = "clear"
    /\ \A a \in under : last.prior[a] = "stored" /\ Stored(a) = {}

(***************************************************************************)
(* C7: has(key) is true exactly when get(key) would hit, and a has hit     *)
(* renews the key's recency: with maxSize = 2, after set x, set y, has x,  *)
(* set z, the key y is a miss and x and z are hits, in every adapter.      *)
(***************************************************************************)
C7_HasRenewsRecency ==
    \A a \in under :
        /\ \A k \in Keys : HasR(a, k) = "true" <=> Hit(a, k)
        /\ (maxSize = 2 /\ ReadBetweenSets(log, "has")) =>
               /\ Miss(a, log[2].key)
               /\ Hit(a, log[1].key)
               /\ Hit(a, log[4].key)

(***************************************************************************)
(* C8: driven in lockstep by the same awaited calls and clock, with the    *)
(* same maxSize, the three adapters return the same result for every get   *)
(* and has.                                                                *)
(***************************************************************************)
C8_AdaptersAgree ==
    (Lockstep /\ last.op \in {"get", "has"}) =>
        /\ res["localStorage"] = res["memory"]
        /\ res["fileSystem"] = res["memory"]

(***************************************************************************)
(* C9: in both persistent adapters, while what is stored for a key is      *)
(* malformed (and the AccessOrder document is intact), get of that key     *)
(* returns miss and has returns false, as for a key never set, and a get   *)
(* or has made on such a key returned just that, without throwing.         *)
(***************************************************************************)
C9_MalformedIsMiss ==
    \A a \in under :
        /\ \A k \in Keys :
               Doc(a, k).kind \in MalformedKinds =>
                   GetR(a, k) = Undefined /\ HasR(a, k) = "false"
        /\ (last.op = "get" /\ last.prior[a] \in MalformedKinds) => res[a] = Undefined
        /\ (last.op = "has" /\ last.prior[a] \in MalformedKinds) => res[a] = "false"

\* a has on a key whose stored text does not parse
C9_Witness ==
    /\ last.op = "has"
    /\ \A a \in under : last.prior[a] = "garbage" /\ res[a] = "false"

(***************************************************************************)
(* C10: in both persistent adapters get, has, delete and clear never throw *)
(* or reject, whatever was written over the entries and over the           *)
(* AccessOrder document.                                                   *)
(***************************************************************************)
C10_NeverThrows ==
    \A a \in under :
        last.op \in {"get", "has", "delete", "clear"} => res[a] # Threw

(***************************************************************************)
(* C11: when localStorage rejects the write of the entry, set runs cleanup *)
(* and writes again, once: if only the first write is rejected set         *)
(* completes, the entry is stored and its key is the tail of AccessOrder;  *)
(* if the second write is rejected too, set rejects.                       *)
(***************************************************************************)
C11_RepairAndRetryOnce ==
    /\ last.op = SetOp(1) =>
           /\ res["localStorage"] = Void
           /\ ls.items[last.key] = NewEntry(last.value, last.ttl, now)
           /\ Arr(ls.order) # <<>>
           /\ Arr(ls.order)[Len(Arr(ls.order))] = last.key
    /\ last.op = SetOp(2) => res["localStorage"] = Threw

\* a retried set at capacity: the cleanup and the retry kept the new key last
C11_Witness ==
    /\ last.op = SetOp(1)
    /\ maxSize = 2
    /\ Len(Arr(ls.order)) = 2
    /\ last.prior["localStorage"] = "absent"
    /\ res["localStorage"] = Void

\* the elements of an adapter's AccessOrder that stand for a key: the key,
\* and in FileSystemAdapter also the name of the key's file
Names(a, key) == IF a = "fileSystem" THEN {Raw(key), Hash(key)} ELSE {key}

Tracked(a, key) ==
    \E i \in 1 .. Len(AccessOrder(a)) : AccessOrder(a)[i] \in Names(a, key)

\* AccessOrder without the elements that stand for a key
OrderOfOthers(a, key) == SelectSeq(AccessOrder(a), LAMBDA e : e \notin Names(a, key))

(***************************************************************************)
(* C12: in every adapter delete(k) completes without error; when nothing   *)
(* is stored under k it leaves every other entry and the relative          *)
(* AccessOrder of the other keys as they were; when something is stored    *)
(* under k, afterwards get(k) is a miss and k is not in AccessOrder.       *)
(***************************************************************************)
C12_Step ==
    \A a \in under :
        \A k \in Keys :
            (last'.op = "delete" /\ last'.key = k) =>
                /\ res'[a] = Void
                /\ Doc(a, k).kind = "absent" =>
                       /\ \A j \in Keys \ {k} : Doc(a, j)' = Doc(a, j)
                       /\ OrderOfOthers(a, k)' = OrderOfOthers(a, k)
                /\ Doc(a, k).kind # "absent" =>
                       /\ Miss(a, k)'
                       /\ ~Tracked(a, k)'

C12_DeleteIdempotent == [][C12_Step]_vars

C14_OverlappingSets ==
    AllDone =>
        \A i \in Procs :
            GetR("fileSystem", procs[i].key) = procs[LastIssued(i)].value

(***************************************************************************)
(* C15: an awaited call of a memoized function invokes the wrapped         *)
(* function exactly when the cache holds no unexpired result for the       *)
(* resolved key; when it holds one, the call returns it, and otherwise it  *)
(* returns what the wrapped function returned.                             *)
(***************************************************************************)
C15_Step ==
    \A k \in Keys :
        (last'.op = "memoized" /\ last'.key = k) =>
            /\ memo'.invoked <=> ~Cached(k)
            /\ ~memo'.invoked => res'["memory"] = mem.store[k].value
            /\ memo'.invoked => res'["memory"] = last'.value

C15_InvokedOnMissOnly == [][C15_Step]_vars

(***************************************************************************)
(* C16: a listener registered on a Cache receives exactly one event of a   *)
(* type it is registered for from each completed set, delete and clear and *)
(* from each get of a key that is stored and not expired, appended in the  *)
(* order the calls complete; a get miss, has, and a call of a type the     *)
(* listener is not (or no longer) registered for deliver nothing.          *)
(***************************************************************************)
C16_Step ==
    LET a    == CHOOSE x \in under : TRUE
        op   == last'.op
        key  == last'.key
        live == IF Doc(a, key).kind = "entry" THEN ~isExpired(Doc(a, key), now) ELSE FALSE
        type == IF op \in {"set", "delete", "clear"} THEN op
                ELSE IF op = "get" /\ live THEN "get" ELSE "none"
    IN  IF calls' # calls
        THEN /\ facade'.listening = facade.listening
             /\ facade'.heard = IF type \in facade.listening
                                THEN Append(facade.heard, [type |-> type, key |-> key])
                                ELSE facade.heard
        ELSE facade'.heard = facade.heard

C16_FacadeEvents == [][C16_Step]_vars

\* set, get, delete were heard in this order, the listener was removed from
\* set, and the set that followed was not heard
C16_Witness ==
    /\ Len(facade.heard) = 3
    /\ facade.heard[1].type = "set"
    /\ facade.heard[2].type = "get"
    /\ facade.heard[3].type = "delete"
    /\ "set" \notin facade.listening
    /\ last.op = "set"

(***************************************************************************)
(* C17: clear() of a LocalStorageAdapter leaves every item of localStorage *)
(* whose key does not start with the adapter's prefix as it was.           *)
(***************************************************************************)
C17_Step ==
    ("localStorage" \in under /\ last'.op = "clear") => ls'.foreign = ls.foreign

C17_ClearKeepsForeign == [][C17_Step]_vars

(***************************************************************************)
(* C18: every entry an adapter stores has no expiry or an expiry strictly  *)
(* greater than its creation timestamp, whatever ttl the set was given.    *)
(***************************************************************************)
C18_ExpiryAfterTimestamp ==
    \A a \in under, k \in Keys :
        Doc(a, k).kind = "entry" =>
            \/ Doc(a, k).expiry = NoExpiry
            \/ Doc(a, k).expiry > Doc(a, k).timestamp

\* the keys await adapter.get would return a value for
LiveKeys(a) == {k \in Keys : Hit(a, k)}

(***************************************************************************)
(* C19: with maxSize = n and n live entries stored, a set of one of their  *)
(* keys evicts nothing: the n keys are still retrievable after it, and the *)
(* key of the set holds the value of the set.                              *)
(***************************************************************************)
C19_Step ==
    \A a \in under, key \in Keys, value \in Values :
        (/\ last'.op = "set"
         /\ last'.key = key
         /\ last'.value = value
         /\ maxSize >= 1
         /\ Cardinality(LiveKeys(a)) = maxSize
         /\ key \in LiveKeys(a))
        => /\ \A k \in LiveKeys(a) : Hit(a, k)'
           /\ GetR(a, key)' = value

C19_SetOfPresentKeyKeepsAll == [][C19_Step]_vars

\* the element of AccessOrder that get, set and delete of an adapter use for
\* a key
Identity(a, key) == IF a = "fileSystem" THEN Raw(key) ELSE key

(***************************************************************************)
(* C20: after every completed set, get, has, delete or clear of a single   *)
(* writer, AccessOrder holds no element twice, and its elements are        *)
(* exactly the keys stored in the backing medium, each under the identity  *)
(* get and delete use for it.                                              *)
(***************************************************************************)
C20_AccessOrderConsistent ==
    \A a \in under :
        last.op \in {"set", "get", "has", "delete", "clear"} =>
            LET order == AccessOrder(a)
            IN  /\ \A i, j \in 1 .. Len(order) : order[i] = order[j] => i = j
                /\ {order[i] : i \in 1 .. Len(order)} = {Identity(a, k) : k \in Stored(a)}

\* the keys retrievable before a step and no longer retrievable after it,
\* the key of the call aside
Evicted(a, key) == {k \in LiveKeys(a) \ {key} : ~Hit(a, k)'}

(***************************************************************************)
(* C21: a set on an adapter that holds at most maxSize entries removes at  *)
(* most one unexpired entry other than the one of its key, and none when   *)
(* fewer than maxSize unexpired entries were stored.                       *)
(***************************************************************************)
C21_Step ==
    \A a \in under, key \in Keys :
        (/\ last'.op = "set"
         /\ last'.key = key
         /\ maxSize >= 1
         /\ Cardinality(Stored(a)) <= maxSize)
        => /\ Cardinality(Evicted(a, key)) <= 1
           /\ Cardinality(LiveKeys(a)) < maxSize => Evicted(a, key) = {}

C21_EvictsOneAtATime == [][C21_Step]_vars

(***************************************************************************)
(* C22: a set of a key that is not stored, made when fewer than maxSize    *)
(* unexpired entries are stored, evicts no unexpired entry: expired        *)
(* entries do not count toward the capacity.                               *)
(***************************************************************************)
C22_Step ==
    \A a \in under, key \in Keys :
        (/\ last'.op = "set"
         /\ last'.key = key
         /\ maxSize >= 1
         /\ Doc(a, key).kind = "absent"
         /\ Cardinality(LiveKeys(a)) < maxSize)
        => Evicted(a, key) = {}

C22_ExpiredDoNotCount == [][C22_Step]_vars

(***************************************************************************)
(* C23: a get or has of a key whose entry has expired reports a miss and   *)
(* leaves nothing stored under the key and no element standing for the key *)
(* in AccessOrder, in every adapter.                                       *)
(***************************************************************************)
C23_Step ==
    \A a \in under, k \in Keys :
        (/\ last'.op \in {"get", "has"}
         /\ last'.key = k
         /\ Doc(a, k).kind = "entry"
         /\ isExpired(Doc(a, k), now))
        => /\ res'[a] = IF last'.op = "get" THEN Undefined ELSE "false"
           /\ Doc(a, k)'.kind = "absent"
           /\ ~Tracked(a, k)'

C23_ExpiredPurgedOnAccess == [][C23_Step]_vars

\* a stored document cleanup keeps: it parses and has not expired
Survives(doc, t) == doc.kind \in {"entry", "object"} /\ ~isExpired(doc, t)

\* the place of a key in AccessOrder: that of the last element standing for
\* it, 0 when there is none
Recency(a, key) ==
    LET at == {i \in 1 .. Len(AccessOrder(a)) : AccessOrder(a)[i] \in Names(a, key)}
    IN  IF at = {} THEN 0 ELSE CHOOSE i \in at : \A j \in at : j <= i

(***************************************************************************)
(* C24: a cleanup pass of a persistent adapter, run on its own, removes    *)
(* every expired or unparseable entry from storage and from AccessOrder,   *)
(* and leaves an AccessOrder that lists exactly the stored keys, each      *)
(* once, at most maxSize of them, with the keys that were tracked and      *)
(* survive in the relative order they had.                                 *)
(***************************************************************************)
C24_Step ==
    \A a \in under :
        last'.op = "cleanup" =>
            /\ res'[a] = Void
            /\ \A k \in Keys :
                   (Doc(a, k).kind # "absent" /\ ~Survives(Doc(a, k), now)) =>
                       (Doc(a, k)'.kind = "absent" /\ ~Tracked(a, k)')
            /\ \A i, j \in 1 .. Len(AccessOrder(a)') :
                   AccessOrder(a)'[i] = AccessOrder(a)'[j] => i = j
            /\ {AccessOrder(a)'[i] : i \in 1 .. Len(AccessOrder(a)')}
                   = {Identity(a, k) : k \in Stored(a)'}
            /\ \A j, k \in Keys :
                   (/\ Recency(a, j) > 0
                    /\ Recency(a, j) < Recency(a, k)
                    /\ Recency(a, j)' > 0
                    /\ Recency(a, k)' > 0)
                   => Recency(a, j)' < Recency(a, k)'
            /\ Cardinality(Stored(a)') <= Cap

C24_RepairRebuildsAccessOrder == [][C24_Step]_vars

\* stored text JSON.parse throws on
Unparseable == {"garbage", "empty"}

(***************************************************************************)
(* C25: in both persistent adapters a get or has of a key whose stored     *)
(* data fails to parse reports a miss, removes the data from the backing   *)
(* medium and leaves no element standing for the key in AccessOrder.       *)
(***************************************************************************)
C25_Step ==
    \A a \in under, k \in Keys :
        (/\ last'.op \in {"get", "has"}
         /\ last'.key = k
         /\ Doc(a, k).kind \in Unparseable)
        => /\ res'[a] = IF last'.op = "get" THEN Undefined ELSE "false"
           /\ Doc(a, k)'.kind = "absent"
           /\ ~Tracked(a, k)'

C25_MalformedPurgedOnAccess == [][C25_Step]_vars

(***************************************************************************)
(* C26: no overlapping set, delete or clear of FileSystemAdapter rejects   *)
(* because a file it unlinks is already gone, and when a clear resolves    *)
(* AccessOrder reads as empty.                                             *)
(***************************************************************************)
C26_Step ==
    \A i \in Procs :
        (procs[i].r = Pending /\ procs'[i].r # Pending) =>
            /\ procs'[i].r = Void
            /\ procs[i].pc \in {"clearUnlink", "clearSetOrder"} => Arr(fsys'.order) = <<>>

C26_MissingFileTolerated == [][C26_Step]_vars

\* how many elements of an adapter's AccessOrder are the key, under the
\* identity get, set and delete use for it
Memberships(a, key) ==
    Cardinality({i \in 1 .. Len(AccessOrder(a)) : AccessOrder(a)[i] = Identity(a, key)})

\* the overlapping calls were on keys distinct from one another
DistinctKeys == \A i, j \in Procs : procs[i].key = procs[j].key => i = j

(***************************************************************************)
(* C27: once overlapping sets on distinct keys of a FileSystemAdapter have *)
(* all completed, a cleanup pass run on its own keeps every stored entry   *)
(* and leaves each stored key in AccessOrder exactly once.                 *)
(***************************************************************************)
C27_Step ==
    (last'.op = "cleanup" /\ AllDone /\ DistinctKeys) =>
        \A k \in Keys :
            Doc("fileSystem", k).kind # "absent" =>
                /\ Doc("fileSystem", k)' = Doc("fileSystem", k)
                /\ Memberships("fileSystem", k)' = 1

C27_RepairAfterOverlap == [][C27_Step]_vars

(***************************************************************************)
(* C28: of the calls of a memoized function issued together with one key,  *)
(* at most one invokes the wrapped function, and all resolve to the same   *)
(* result; a call whose wrapped function rejects rejects too and caches    *)
(* nothing, and a call returns without invoking only a cached result.      *)
(***************************************************************************)
C28_Step ==
    /\ AllDone' =>
           \A i, j \in Procs :
               (i # j /\ procs'[i].key = procs'[j].key) =>
                   /\ ~(procs'[i].invoked /\ procs'[j].invoked)
                   /\ procs'[i].r = procs'[j].r
    /\ \A i \in Procs :
           /\ (procs[i].pc = "invoke" /\ procs[i].returns = Rejects) =>
                  (procs'[i].pc = "invoke" \/ (procs'[i].r = Threw /\ mem' = mem))
           /\ (procs[i].pc = "get" /\ procs'[i].pc = "done") =>
                  (Cached(procs[i].key) /\ procs'[i].r = mem.store[procs[i].key].value)

C28_MemoizeUnderOverlap == [][C28_Step]_vars

====
